---- MODULE Spec2Model ----
(***************************************************************************)
(* Model of lfs_server.py: the S3 versioned Git LFS server.                *)
(*                                                                         *)
(* State: the in-memory version_mapping, its JSON file on disk, the        *)
(* lfs_storage working tree, the S3 bucket, the Flask worker threads that  *)
(* are inside upload_object, and the response of the last request served   *)
(* by one of the other handlers.                                           *)
(***************************************************************************)
EXTENDS Integers, Sequences, FiniteSets, TLC

VARIABLES
    version_mapping,  \* dict OID -> {path, version_id, etag}          (line 15)
    mapping_file,     \* s3_version_mapping.json: [exists, text]
    lfs_storage,      \* lfs_storage/ tree: relative path -> file content
    bucket,           \* S3 bucket: key -> sequence of stored versions
    versioning,       \* whether the bucket has versioning enabled
    thr,              \* per worker thread: position inside upload_object
    out,              \* last response of batch / download / legacy / info
    offered           \* OIDs whose download action a client still holds

vars == <<version_mapping, mapping_file, lfs_storage, bucket, versioning, thr,
          out, offered>>

----------------------------------------------------------------------------
(* Bounds                                                                  *)

MaxVersions == 2      \* object versions a versioned bucket holds in all
MaxBatch == 2         \* objects in one batch request

----------------------------------------------------------------------------
(* Values                                                                  *)

None == "None"                    \* Python None
Absent == "<no file>"             \* no file at that path

Contents == {"AAA", "BB"}         \* request bodies / file contents

\* hashlib.sha256(data).hexdigest(): lowercase hex, injective on Contents
sha256_hexdigest(data) ==
    CASE data = "AAA" -> "a1"
      [] data = "BB"  -> "b2"
      [] OTHER        -> "e3"

\* S3 ETag of a stored body (MD5 of the content)
s3_etag(data) ==
    CASE data = "AAA" -> "md5-AAA"
      [] data = "BB"  -> "md5-BB"
      [] OTHER        -> "md5-other"

\* Identifiers a client may send: the two digests, an upper-case spelling
\* of the first, and a digest of content nobody holds.
OIDs == {"a1", "b2", "A1", "ff"}
Sizes == {3}

\* os.walk order of the files under lfs_storage/
WalkOrder == <<"docs/x.bin", "img/y.bin">>
Paths == {WalkOrder[i] : i \in 1..Len(WalkOrder)}

\* What a file of the tree may hold: the first is edited over time, the
\* second is a copy of one content that comes and goes.
FileContents(p) == IF p = WalkOrder[1] THEN Contents ELSE {"AAA"}
Trees == {tree \in [Paths -> Contents \cup {Absent}] :
             \A p \in Paths : tree[p] \in FileContents(p) \cup {Absent}}

VersionIds == <<"v1", "v2", "v3", "v4">>   \* S3 version ids, per key, in order

Threads == {"t1", "t2"}

\* Outcome of one boto3 call: "ok", the bucket answers from what it holds
\* (a missing key or version included); "ClientError", S3 answers with
\* another error response (AccessDenied, SlowDown); "OtherError", the call
\* raises an exception that is not a ClientError (no connection).
Outcomes == {"ok", "ClientError", "OtherError"}

----------------------------------------------------------------------------
(* The JSON document: json.dump / json.load                                *)

EmptyMapping == [o \in {} |-> [path |-> None, version_id |-> None, etag |-> None]]

KeyOrder == <<"A1", "a1", "b2", "ff">>

\* JSON spelling of a value: None is written as null
json_value(v) == IF v = None THEN "null" ELSE v
python_value(tok) == IF tok = "null" THEN None ELSE tok

RECURSIVE dump_items(_, _)
dump_items(m, i) ==
    IF i > Len(KeyOrder) THEN <<>>
    ELSE LET k == KeyOrder[i] IN
         (IF k \in DOMAIN m
          THEN <<k, json_value(m[k].path), json_value(m[k].version_id),
                 json_value(m[k].etag)>>
          ELSE <<>>) \o dump_items(m, i + 1)

\* json.dump(version_mapping, f): the document as a sequence of tokens
json_dump(m) == <<"{">> \o dump_items(m, 1) \o <<"}">>

\* json.load succeeds on a complete document only
json_parses(text) ==
    /\ Len(text) >= 2
    /\ text[1] = "{"
    /\ text[Len(text)] = "}"
    /\ (Len(text) - 2) % 4 = 0
    /\ \A i \in 2..(Len(text) - 1) : text[i] \notin {"{", "}"}

json_load(text) ==
    LET n == (Len(text) - 2) \div 4
        keys == {text[4 * k - 2] : k \in 1..n}
        last(o) == CHOOSE k \in 1..n :
                      /\ text[4 * k - 2] = o
                      /\ \A j \in 1..n : text[4 * j - 2] = o => j <= k
    IN [o \in keys |->
          [path       |-> python_value(text[4 * last(o) - 1]),
           version_id |-> python_value(text[4 * last(o)]),
           etag       |-> python_value(text[4 * last(o) + 1])]]

NoFile == [exists |-> FALSE, text |-> <<>>]
Truncated == [exists |-> TRUE, text |-> <<>>]

\* A write through a handle positioned at offset 0: the new text replaces
\* the start of the file and whatever lay beyond its end stays.
write_at_start(old, new) == new \o SubSeq(old, Len(new) + 1, Len(old))

\* a load that never reads the file
mut_load_version_mapping(file) == EmptyMapping

\* load_version_mapping, started from the empty module-level dict
load_version_mapping(file) ==
    IF ~file.exists THEN EmptyMapping
    ELSE IF json_parses(file.text) THEN json_load(file.text)
    ELSE EmptyMapping

----------------------------------------------------------------------------
(* Resolution of an OID to an S3 key                                       *)

\* get_file_path_from_local: first file in walk order whose digest is oid
get_file_path_from_local(oid) ==
    LET hits == {i \in 1..Len(WalkOrder) :
                    /\ lfs_storage[WalkOrder[i]] # Absent
                    /\ sha256_hexdigest(lfs_storage[WalkOrder[i]]) = oid}
    IN IF hits = {} THEN None
       ELSE WalkOrder[CHOOSE i \in hits : \A j \in hits : i <= j]

\* a resolution that falls back to a fixed key when nothing is found
mut_get_s3_key(oid) ==
    IF oid \in DOMAIN version_mapping THEN version_mapping[oid].path
    ELSE IF get_file_path_from_local(oid) # None
    THEN get_file_path_from_local(oid)
    ELSE WalkOrder[1]

get_s3_key(oid) ==
    IF oid \in DOMAIN version_mapping THEN version_mapping[oid].path
    ELSE get_file_path_from_local(oid)

\* Number of full-store scans one call of get_s3_key(oid) performs
scans_of_get_s3_key(oid) == IF oid \in DOMAIN version_mapping THEN 0 ELSE 1

----------------------------------------------------------------------------
(* The S3 bucket                                                           *)

\* put_object that keeps a single version whatever the bucket's setting
mut_put_object(key, data) ==
    [bucket EXCEPT ![key] = <<[data |-> data, etag |-> s3_etag(data)]>>]

\* put_object on an available bucket: the new bucket content
put_object(key, data) ==
    LET ver == [data |-> data, etag |-> s3_etag(data)] IN
    IF versioning THEN [bucket EXCEPT ![key] = Append(@, ver)]
    ELSE [bucket EXCEPT ![key] = <<ver>>]

\* VersionId of the put_object response (absent on an unversioned bucket)
put_version_id(key) ==
    IF versioning THEN VersionIds[Len(bucket[key]) + 1] ELSE None

version_index(vid) == CHOOSE i \in 1..Len(VersionIds) : VersionIds[i] = vid

\* get_object on an available bucket: the body, or None for a
\* NoSuchKey / NoSuchVersion error response
get_object(key, version_id) ==
    IF version_id # None
    THEN IF version_index(version_id) <= Len(bucket[key])
         THEN bucket[key][version_index(version_id)].data
         ELSE None
    ELSE IF Len(bucket[key]) > 0
         THEN bucket[key][Len(bucket[key])].data
         ELSE None

\* a head_object that finds every key
mut_head_object(key) == TRUE

\* head_object on an available bucket
head_object(key) == Len(bucket[key]) > 0

\* the bucket takes another object version
RECURSIVE versions_held(_)
versions_held(i) ==
    IF i = 0 THEN 0 ELSE Len(bucket[WalkOrder[i]]) + versions_held(i - 1)

bucket_has_room == ~versioning \/ versions_held(Len(WalkOrder)) < MaxVersions

----------------------------------------------------------------------------
(* Initial state: the process has just started, there is no mapping file   *)
(* yet and the bucket holds nothing.                                       *)

Idle == [pc |-> "idle", oid |-> None, data |-> None, s3_key |-> None,
         outcome |-> None, version_id |-> None, etag |-> None, buf |-> <<>>,
         status |-> 0, body |-> None]

\* outcomes: the outcome of each boto3 call the handler made, in order;
\* scans: how many times it called get_file_path_from_local
NoOut == [op |-> None, operation |-> None, oid |-> None, data |-> None,
          request |-> <<>>, status |-> 0, body |-> None, objects |-> <<>>,
          outcomes |-> <<>>, scans |-> 0]

Init ==
    /\ mapping_file = NoFile
    /\ version_mapping = load_version_mapping(mapping_file)
    /\ lfs_storage \in Trees
    /\ bucket = [p \in Paths |-> <<>>]
    /\ versioning \in BOOLEAN
    /\ thr = [t \in Threads |-> Idle]
    /\ out = NoOut
    /\ offered = {}

----------------------------------------------------------------------------
(* PUT /<repo>/objects/<oid>: upload_object, upload_to_s3,                 *)
(* save_version_mapping, one action per access to shared state             *)

Done(t, status, body) ==
    [thr[t] EXCEPT !.pc = "done", !.status = status, !.body = body]

\* a hash check that lets everything through
mut_hash_mismatch(oid, data) == FALSE

\* line 259
hash_mismatch(oid, data) == sha256_hexdigest(data) # oid

\* lines 254-261 and 111-114: hash check, then get_s3_key
UploadBegin(t, oid, data) ==
    /\ thr[t].pc = "idle"
    /\ LET req == [Idle EXCEPT !.oid = oid, !.data = data] IN
       thr' = [thr EXCEPT ![t] =
                 IF hash_mismatch(oid, data)
                 THEN [req EXCEPT !.pc = "done", !.status = 400,
                                  !.body = "Hash mismatch"]
                 ELSE IF get_s3_key(oid) = None
                 THEN [req EXCEPT !.pc = "done", !.status = 500,
                                  !.body = "Upload failed"]
                 ELSE [req EXCEPT !.pc = "put", !.s3_key = get_s3_key(oid)]]
    /\ UNCHANGED <<version_mapping, mapping_file, lfs_storage, bucket,
                   versioning, out, offered>>

\* lines 117-127 and 139-143: put_object and its response
UploadPut(t, outcome) ==
    /\ thr[t].pc = "put"
    /\ IF outcome = "ok"
       THEN /\ bucket_has_room
            /\ bucket' = put_object(thr[t].s3_key, thr[t].data)
            /\ thr' = [thr EXCEPT ![t].pc = "record",
                          ![t].outcome = outcome,
                          ![t].version_id = put_version_id(thr[t].s3_key),
                          ![t].etag = s3_etag(thr[t].data)]
       ELSE /\ bucket' = bucket
            /\ thr' = [thr EXCEPT ![t] =
                         [Done(t, 500,
                               IF outcome = "ClientError" THEN "Upload failed"
                               ELSE "Internal Server Error")
                            EXCEPT !.outcome = outcome]]
    /\ UNCHANGED <<version_mapping, mapping_file, lfs_storage, versioning, out,
                   offered>>

\* a record that always names the first key
mut_record_of(t) ==
    [path |-> WalkOrder[1], version_id |-> thr[t].version_id,
     etag |-> thr[t].etag]

\* lines 130-134: version_mapping[oid] = {...}
record_of(t) ==
    [path |-> thr[t].s3_key, version_id |-> thr[t].version_id,
     etag |-> thr[t].etag]

UploadRecord(t) ==
    /\ thr[t].pc = "record"
    /\ version_mapping' =
         [o \in DOMAIN version_mapping \cup {thr[t].oid} |->
            IF o = thr[t].oid THEN record_of(t) ELSE version_mapping[o]]
    /\ thr' = [thr EXCEPT ![t].pc = "save"]
    /\ UNCHANGED <<mapping_file, lfs_storage, bucket, versioning, out, offered>>

\* lines 43-45: open(mapping_file, 'w') truncates the file, json.dump fills
\* the handle's buffer; an exception is caught at line 47
SaveOpen(t, ok) ==
    /\ thr[t].pc = "save"
    /\ mapping_file' = Truncated
    /\ thr' = [thr EXCEPT ![t] =
                 IF ok THEN [thr[t] EXCEPT !.pc = "flush",
                                           !.buf = json_dump(version_mapping)]
                 ELSE Done(t, 200, "")]
    /\ UNCHANGED <<version_mapping, lfs_storage, bucket, versioning, out,
                   offered>>

\* line 44-48 and 137-138, 264-266: leaving the with block writes the
\* buffer out and closes the file; upload_to_s3 returns True either way
SaveFlush(t, ok) ==
    /\ thr[t].pc = "flush"
    /\ mapping_file' =
         IF ok THEN [exists |-> TRUE,
                     text |-> write_at_start(mapping_file.text, thr[t].buf)]
         ELSE mapping_file
    /\ thr' = [thr EXCEPT ![t] = [Done(t, 200, "") EXCEPT !.buf = <<>>]]
    /\ UNCHANGED <<version_mapping, lfs_storage, bucket, versioning, out,
                   offered>>

\* the response of batch / download / legacy / info / a PUT served alone
\* has been sent
Respond ==
    /\ out # NoOut
    /\ out' = NoOut
    /\ UNCHANGED <<version_mapping, mapping_file, lfs_storage, bucket,
                   versioning, thr, offered>>

\* the response has been sent; the worker takes the next request
Return(t) ==
    /\ thr[t].pc = "done"
    /\ thr' = [thr EXCEPT ![t] = Idle]
    /\ UNCHANGED <<version_mapping, mapping_file, lfs_storage, bucket,
                   versioning, out, offered>>

----------------------------------------------------------------------------
(* GET /<repo>/objects/<oid>: download_object, download_from_s3            *)

\* a download that always asks for the latest version
mut_pinned_version(oid) == None

\* lines 153-154: the version to ask for
pinned_version(oid) ==
    IF oid \in DOMAIN version_mapping THEN version_mapping[oid].version_id
    ELSE None

\* lines 145-175 on an available bucket: the data, or None
download_from_s3(oid) ==
    IF get_s3_key(oid) = None THEN None
    ELSE get_object(get_s3_key(oid), pinned_version(oid))

DownloadObject(oid, outcome) ==
    /\ out = NoOut
    /\ LET s3_key == get_s3_key(oid)
           data == IF s3_key = None \/ outcome # "ok" THEN None
                   ELSE download_from_s3(oid)
           raised == s3_key # None /\ outcome = "OtherError"
       IN out' = [NoOut EXCEPT
                    !.op = "download",
                    !.oid = oid,
                    !.status = IF raised THEN 500
                               ELSE IF data = None THEN 404 ELSE 200,
                    !.body = IF raised THEN "Internal Server Error"
                             ELSE IF data = None THEN "Object not found"
                             ELSE data,
                    !.outcomes = IF s3_key = None THEN <<>> ELSE <<outcome>>,
                    !.scans = scans_of_get_s3_key(oid)]
    /\ UNCHANGED <<version_mapping, mapping_file, lfs_storage, bucket,
                   versioning, thr, offered>>

----------------------------------------------------------------------------
(* POST /<repo>/objects/batch: batch_objects, object_exists_in_s3          *)

NoAction == [kind |-> None, href |-> None, expires_in |-> 0]
NoError == [code |-> 0, message |-> None]

\* lines 89-107 on a bucket that answers: True or False
object_exists_in_s3(oid, outcome) ==
    IF get_s3_key(oid) = None THEN FALSE
    ELSE IF outcome = "ok" THEN head_object(get_s3_key(oid))
    ELSE FALSE

\* head_object is reached and raises something other than ClientError
exists_raises(oid, outcome) ==
    get_s3_key(oid) # None /\ outcome = "OtherError"

\* a loop body that checks existence before it allows an upload as well
mut_batch_entry(operation, obj, outcome) ==
    IF operation \in {"download", "upload"}
    THEN IF object_exists_in_s3(obj.oid, outcome)
         THEN <<[oid |-> obj.oid, size |-> obj.size,
                 actions |-> [kind |-> operation, href |-> obj.oid,
                              expires_in |-> 3600],
                 error |-> NoError]>>
         ELSE <<[oid |-> obj.oid, size |-> obj.size,
                 actions |-> NoAction,
                 error |-> [code |-> 404, message |-> "Object not found"]]>>
    ELSE <<>>

\* lines 201-239: what one pass of the loop appends to response_objects
batch_entry(operation, obj, outcome) ==
    IF operation = "download"
    THEN IF object_exists_in_s3(obj.oid, outcome)
         THEN <<[oid |-> obj.oid, size |-> obj.size,
                 actions |-> [kind |-> "download", href |-> obj.oid,
                              expires_in |-> 3600],
                 error |-> NoError]>>
         ELSE <<[oid |-> obj.oid, size |-> obj.size,
                 actions |-> NoAction,
                 error |-> [code |-> 404, message |-> "Object not found"]]>>
    ELSE IF operation = "upload"
    THEN <<[oid |-> obj.oid, size |-> obj.size,
            actions |-> [kind |-> "upload", href |-> obj.oid,
                         expires_in |-> 3600],
            error |-> NoError]>>
    ELSE <<>>

\* a loop that gives up at the first object it cannot find
RECURSIVE mut_batch_entries(_, _, _, _)
mut_batch_entries(operation, objects, outcomes, i) ==
    IF i > Len(objects) THEN <<>>
    ELSE LET e == batch_entry(operation, objects[i], outcomes[i]) IN
         IF e # <<>> /\ e[1].error.code = 404 THEN e
         ELSE e \o mut_batch_entries(operation, objects, outcomes, i + 1)

RECURSIVE batch_entries(_, _, _, _)
batch_entries(operation, objects, outcomes, i) ==
    IF i > Len(objects) THEN <<>>
    ELSE batch_entry(operation, objects[i], outcomes[i])
            \o batch_entries(operation, objects, outcomes, i + 1)

\* index of the first object whose existence check raises, 0 if none does
first_raise(operation, objects, outcomes) ==
    LET r == {i \in 1..Len(objects) :
                 operation = "download"
                 /\ exists_raises(objects[i].oid, outcomes[i])}
    IN IF r = {} THEN 0 ELSE CHOOSE i \in r : \A j \in r : i <= j

\* objects the loop gets to
processed(operation, objects, outcomes) ==
    IF first_raise(operation, objects, outcomes) = 0 THEN Len(objects)
    ELSE first_raise(operation, objects, outcomes)

RECURSIVE sum_to(_, _)
sum_to(f, n) == IF n = 0 THEN 0 ELSE f[n] + sum_to(f, n - 1)

\* outcomes of the head_object calls made for objects 1..n
RECURSIVE calls_made(_, _, _, _)
calls_made(operation, objects, outcomes, n) ==
    IF n = 0 THEN <<>>
    ELSE calls_made(operation, objects, outcomes, n - 1)
         \o (IF operation = "download" /\ get_s3_key(objects[n].oid) # None
             THEN <<outcomes[n]>> ELSE <<>>)

batch_response(given, objects, outcomes) ==
    LET operation == IF given = None THEN "download" ELSE given   \* line 183
        n == processed(operation, objects, outcomes)
        raised == first_raise(operation, objects, outcomes) # 0
        scans == [i \in 1..Len(objects) |->
                    scans_of_get_s3_key(objects[i].oid)
                    * (IF operation = "download" THEN 2 ELSE 1)]
    IN [NoOut EXCEPT
          !.op = "batch",
          !.operation = given,
          !.request = objects,
          !.status = IF raised THEN 500 ELSE 200,
          !.body = IF raised THEN "Internal Server Error" ELSE "basic",
          !.objects = IF raised THEN <<>>
                      ELSE batch_entries(operation, objects, outcomes, 1),
          !.outcomes = calls_made(operation, objects, outcomes, n),
          !.scans = sum_to(scans, n)]

\* the identifiers a response hands a download action for
download_offers(response) ==
    {response.objects[i].oid : i \in {j \in 1..Len(response.objects) :
        response.objects[j].actions.kind = "download"}}

BatchObjects(given, objects, outcomes) ==
    /\ out = NoOut
    /\ out' = batch_response(given, objects, outcomes)
    /\ offered' = offered \cup download_offers(out')
    /\ UNCHANGED <<version_mapping, mapping_file, lfs_storage, bucket,
                   versioning, thr>>

\* POST /<repo>/objects: one object, rewritten into a download batch
LegacyObjects(obj, outcome) ==
    /\ out = NoOut
    /\ out' = [batch_response("download", <<obj>>, <<outcome>>)
                 EXCEPT !.op = "legacy"]
    /\ offered' = offered \cup download_offers(out')
    /\ UNCHANGED <<version_mapping, mapping_file, lfs_storage, bucket,
                   versioning, thr>>

\* GET /info
Info ==
    /\ out = NoOut
    /\ out' = [NoOut EXCEPT !.op = "info", !.status = 200,
                            !.body = "S3 Versioned Git LFS Server",
                            !.scans = Cardinality(DOMAIN version_mapping)]
    /\ UNCHANGED <<version_mapping, mapping_file, lfs_storage, bucket,
                   versioning, thr, offered>>

----------------------------------------------------------------------------
(* Environment: the working tree changes, the process is restarted         *)

LocalChange(p, c) ==
    /\ out = NoOut
    /\ c \in FileContents(p) \cup {Absent}
    /\ lfs_storage[p] # c
    /\ lfs_storage' = [lfs_storage EXCEPT ![p] = c]
    /\ offered' = {}
    /\ UNCHANGED <<version_mapping, mapping_file, bucket, versioning, thr, out>>

\* __main__, lines 331-332: a new process, every request in flight is gone
Restart ==
    /\ out = NoOut
    /\ version_mapping' = load_version_mapping(mapping_file)
    /\ thr' = [t \in Threads |-> Idle]
    /\ out' = NoOut
    /\ offered' = {}
    /\ UNCHANGED <<mapping_file, lfs_storage, bucket, versioning>>

----------------------------------------------------------------------------

----------------------------------------------------------------------------
(* PUT served from start to end with no other request in between           *)

\* save_version_mapping: the file after the call.  open(.., 'w') has
\* truncated the file; ok = FALSE is an exception raised after that, inside
\* the with block, and caught at line 47.
save_version_mapping(m, ok) ==
    IF ok THEN [exists |-> TRUE, text |-> json_dump(m)]
    ELSE Truncated

\* a save whose exception leaves the function
mut_save_raises(ok) == ~ok

\* lines 47-48: except Exception catches whatever open or json.dump raised;
\* nothing leaves save_version_mapping
save_raises(ok) == FALSE

UploadObject(oid, data, outcome, how) ==
    LET s3_key == get_s3_key(oid)
        mismatch == hash_mismatch(oid, data)
        stored == ~mismatch /\ s3_key # None /\ outcome = "ok"
        record == [path |-> s3_key, version_id |-> put_version_id(s3_key),
                   etag |-> s3_etag(data)]
        mapping == [o \in DOMAIN version_mapping \cup {oid} |->
                      IF o = oid THEN record ELSE version_mapping[o]]
    IN /\ out = NoOut
       /\ \A t \in Threads : thr[t].pc = "idle"
       /\ stored => bucket_has_room
       /\ bucket' = IF stored THEN put_object(s3_key, data) ELSE bucket
       /\ version_mapping' = IF stored THEN mapping ELSE version_mapping
       /\ mapping_file' = IF stored THEN save_version_mapping(mapping, how)
                          ELSE mapping_file
       /\ out' = [NoOut EXCEPT
                    !.op = "upload",
                    !.oid = oid,
                    !.data = data,
                    !.status = IF mismatch THEN 400
                               ELSE IF stored /\ ~save_raises(how) THEN 200
                               ELSE 500,
                    !.body = IF mismatch THEN "Hash mismatch"
                             ELSE IF stored /\ ~save_raises(how) THEN ""
                             ELSE IF stored \/ (s3_key # None
                                                /\ outcome = "OtherError")
                             THEN "Internal Server Error"
                             ELSE "Upload failed",
                    !.outcomes = IF mismatch \/ s3_key = None THEN <<>>
                                 ELSE <<outcome>>,
                    !.scans = IF mismatch THEN 0
                              ELSE scans_of_get_s3_key(oid)]
       /\ UNCHANGED <<lfs_storage, versioning, thr, offered>>

----------------------------------------------------------------------------

BatchOIDs == {"a1", "ff"}
Objects == [oid : BatchOIDs, size : Sizes]
Operations == {"download", "upload", "verify", None}
Batches == UNION {[1..n -> Objects] : n \in 0..MaxBatch}

\* the existence check is only reached by a download negotiation
BatchOutcomes(given, objects) ==
    IF given \in {"download", None} THEN [1..Len(objects) -> Outcomes]
    ELSE [1..Len(objects) -> {"ok"}]

Next ==
    \/ \E oid \in OIDs, data \in Contents, outcome \in Outcomes,
          how \in BOOLEAN : UploadObject(oid, data, outcome, how)
    \/ \E oid \in OIDs, outcome \in Outcomes : DownloadObject(oid, outcome)
    \/ \E given \in Operations, objects \in Batches :
          \E outcomes \in BatchOutcomes(given, objects) :
             BatchObjects(given, objects, outcomes)
    \/ \E obj \in Objects, outcome \in Outcomes : LegacyObjects(obj, outcome)
    \/ Info
    \/ Respond
    \/ \E p \in Paths, c \in Contents \cup {Absent} : LocalChange(p, c)
    \/ Restart

Spec == Init /\ [][Next]_vars

\* Two workers inside upload_object at the same time; the working tree
\* changes between requests, not while one is being served
TreeChangeAtRest(p, c) ==
    /\ \A t \in Threads : thr[t].pc = "idle"
    /\ LocalChange(p, c)

NextThreads ==
    \/ \E t \in Threads, oid \in OIDs, data \in Contents : UploadBegin(t, oid, data)
    \/ \E t \in Threads, outcome \in Outcomes : UploadPut(t, outcome)
    \/ \E t \in Threads : UploadRecord(t)
    \/ \E t \in Threads, ok \in BOOLEAN : SaveOpen(t, ok)
    \/ \E t \in Threads, ok \in BOOLEAN : SaveFlush(t, ok)
    \/ \E t \in Threads : Return(t)
    \/ \E p \in Paths, c \in Contents \cup {Absent} : TreeChangeAtRest(p, c)

SpecThreads == Init /\ [][NextThreads]_vars

\* The same two workers on a disk that never fails: every open and every
\* write of the mapping file goes through
NextThreadsDiskOk ==
    \/ \E t \in Threads, oid \in OIDs, data \in Contents : UploadBegin(t, oid, data)
    \/ \E t \in Threads, outcome \in Outcomes : UploadPut(t, outcome)
    \/ \E t \in Threads : UploadRecord(t)
    \/ \E t \in Threads : SaveOpen(t, TRUE)
    \/ \E t \in Threads : SaveFlush(t, TRUE)
    \/ \E t \in Threads : Return(t)
    \/ \E p \in Paths, c \in Contents \cup {Absent} : TreeChangeAtRest(p, c)

SpecThreadsDiskOk == Init /\ [][NextThreadsDiskOk]_vars

----------------------------------------------------------------------------
(* Properties                                                              *)

\* every boto3 call the handler made was answered without an error
BackendAvailable == \A i \in 1..Len(out.outcomes) : out.outcomes[i] = "ok"

\* the identifier has a record, or a file of the working tree hashes to it
Resolvable(oid) ==
    \/ oid \in DOMAIN version_mapping
    \/ \E p \in Paths : /\ lfs_storage[p] # Absent
                        /\ sha256_hexdigest(lfs_storage[p]) = oid

\* a PUT of content out.data under its own digest has just been served
UploadOfOwnDigest ==
    /\ out.op = "upload"
    /\ out.oid = sha256_hexdigest(out.data)

\* C1 as stated: in every state, with the backend available, a PUT of
\* content C under SHA256(C) is answered 200 and a GET of SHA256(C) then
\* returns exactly C.
C1_RoundTripEverywhere ==
    (UploadOfOwnDigest /\ BackendAvailable)
        => (out.status = 200 /\ download_from_s3(out.oid) = out.data)

\* C1 amended: when the identifier resolves (it has a record, or a file of
\* the working tree hashes to it) and the backend is available, a PUT of
\* content C under SHA256(C) is answered 200 and a GET of SHA256(C) then
\* returns exactly C.
C1_RoundTrip ==
    (UploadOfOwnDigest /\ BackendAvailable /\ Resolvable(out.oid))
        => (out.status = 200 /\ download_from_s3(out.oid) = out.data)

\* a second version of a key has been written and reads back
C1_Witness ==
    /\ UploadOfOwnDigest
    /\ out.status = 200
    /\ versioning
    /\ version_mapping[out.oid].version_id = VersionIds[2]
    /\ download_from_s3(out.oid) = out.data

\* C2: a PUT whose body does not hash to the identifier is answered 400
\* "Hash mismatch", makes no backend call, leaves the bucket, the index and
\* its file as they were, and changes what no GET returns.
C2_RejectedUploadLeavesNoTrace ==
    [][(out = NoOut /\ out'.op = "upload"
        /\ sha256_hexdigest(out'.data) # out'.oid)
       => /\ out'.status = 400
          /\ out'.body = "Hash mismatch"
          /\ out'.outcomes = <<>>
          /\ bucket' = bucket
          /\ version_mapping' = version_mapping
          /\ mapping_file' = mapping_file
          /\ \A o \in OIDs : download_from_s3(o)' = download_from_s3(o)]_vars

\* a body was rejected under an identifier that resolves and has an object
C2_Witness ==
    /\ out.op = "upload"
    /\ out.status = 400
    /\ out.oid = "a1"
    /\ out.data = "BB"
    /\ download_from_s3("a1") = "AAA"

\* file number i of the walk is the first one that hashes to oid
FirstHit(oid, i) ==
    /\ lfs_storage[WalkOrder[i]] # Absent
    /\ sha256_hexdigest(lfs_storage[WalkOrder[i]]) = oid
    /\ \A j \in 1..(i - 1) :
          \/ lfs_storage[WalkOrder[j]] = Absent
          \/ sha256_hexdigest(lfs_storage[WalkOrder[j]]) # oid

\* Exists(oid): the identifier resolves, through its record or else through
\* the working tree, to a key under which the bucket holds an object
ExistsInBackend(oid) ==
    IF oid \in DOMAIN version_mapping
    THEN bucket[version_mapping[oid].path] # <<>>
    ELSE \E i \in 1..Len(WalkOrder) :
            FirstHit(oid, i) /\ bucket[WalkOrder[i]] # <<>>

DownloadAction(oid) == [kind |-> "download", href |-> oid, expires_in |-> 3600]
UploadAction(oid) == [kind |-> "upload", href |-> oid, expires_in |-> 3600]
NotFoundError == [code |-> 404, message |-> "Object not found"]

\* C3: a download negotiation answered by an available backend returns one
\* result per requested object, in request order: a download action for an
\* object that exists in the backend, the error {404, "Object not found"}
\* for one that does not, whatever its siblings are.
C3_NegotiateDownload ==
    (out.op = "batch" /\ out.operation = "download" /\ BackendAvailable)
        => /\ out.status = 200
           /\ Len(out.objects) = Len(out.request)
           /\ \A i \in 1..Len(out.request) :
                 /\ out.objects[i].oid = out.request[i].oid
                 /\ out.objects[i].size = out.request[i].size
                 /\ IF ExistsInBackend(out.request[i].oid)
                    THEN /\ out.objects[i].actions = DownloadAction(out.request[i].oid)
                         /\ out.objects[i].error = NoError
                    ELSE /\ out.objects[i].actions = NoAction
                         /\ out.objects[i].error = NotFoundError

\* a missing object first, an existing one after it
C3_Witness ==
    /\ out.op = "batch"
    /\ out.operation = "download"
    /\ Len(out.request) = 2
    /\ ~ExistsInBackend(out.request[1].oid)
    /\ ExistsInBackend(out.request[2].oid)
    /\ out.objects[1].error = NotFoundError
    /\ out.objects[2].actions.kind = "download"

\* C4: an upload negotiation returns an upload action for every requested
\* object, in request order, and no error entry, in every state.
C4_NegotiateUpload ==
    (out.op = "batch" /\ out.operation = "upload")
        => /\ out.status = 200
           /\ Len(out.objects) = Len(out.request)
           /\ \A i \in 1..Len(out.request) :
                 /\ out.objects[i].oid = out.request[i].oid
                 /\ out.objects[i].size = out.request[i].size
                 /\ out.objects[i].actions = UploadAction(out.request[i].oid)
                 /\ out.objects[i].error = NoError

\* an object already stored and one that does not resolve, both allowed
C4_Witness ==
    /\ out.op = "batch"
    /\ out.operation = "upload"
    /\ Len(out.request) = 2
    /\ ExistsInBackend(out.request[1].oid)
    /\ ~Resolvable(out.request[2].oid)
    /\ out.objects[2].actions.kind = "upload"

\* C5 as stated: a negotiation whose operation is neither "upload" nor
\* "download", or is absent, returns what a download negotiation of the
\* same objects returns, one result per object.
C5_OtherOperationIsDownload ==
    (out.op = "batch" /\ out.operation \notin {"upload", "download"}
     /\ BackendAvailable)
        => /\ out.status = 200
           /\ Len(out.objects) = Len(out.request)
           /\ out.objects =
                batch_entries("download", out.request,
                              [i \in 1..Len(out.request) |-> "ok"], 1)

\* the handler that has just answered looked up the key of oid
Requested(oid) ==
    \/ out'.op = "download" /\ out'.oid = oid
    \/ /\ out'.op \in {"batch", "legacy"}
       /\ \E i \in 1..Len(out'.request) : out'.request[i].oid = oid

\* C6 as stated: when a download or a negotiation resolves an identifier
\* that has no record by a scan that finds a file, the record is created
\* and persisted, later resolutions do not scan, and the request has
\* scanned once.
C6_ScanResultIsCached ==
    [][\A oid \in OIDs :
         (/\ out = NoOut
          /\ Requested(oid)
          /\ out'.scans > 0
          /\ oid \notin DOMAIN version_mapping
          /\ \E i \in 1..Len(WalkOrder) : FirstHit(oid, i))
         => /\ oid \in DOMAIN version_mapping'
            /\ oid \in DOMAIN load_version_mapping(mapping_file')
            /\ scans_of_get_s3_key(oid)' = 0
            /\ (Len(out'.request) <= 1 => out'.scans = 1)]_vars

\* C7 as stated: reloading the index from its file yields the mapping the
\* process holds in memory.
C7_RestartPreservesIndex ==
    load_version_mapping(mapping_file) = version_mapping

\* both workers have finished a PUT of content c under its digest
BothDone(c) ==
    \A t \in Threads : /\ thr[t].pc = "done"
                       /\ thr[t].oid = sha256_hexdigest(c)
                       /\ thr[t].data = c

\* the index holds one record for the digest of c: the key and the version
\* of one of the two writes, and the ETag of c
WellFormedRecord(c) ==
    LET oid == sha256_hexdigest(c) IN
    /\ oid \in DOMAIN version_mapping
    /\ \E t \in Threads : version_mapping[oid] = record_of(t)
    /\ version_mapping[oid].path \in Paths
    /\ version_mapping[oid].etag = s3_etag(c)
    /\ versioning <=> version_mapping[oid].version_id # None

\* C8 as stated: whenever two workers have both finished a PUT of the same
\* content under its digest, both answered 200, the index holds one
\* well-formed record for it and a GET returns the content.
C8_ConcurrentUploadsAlwaysSucceed ==
    \A c \in Contents :
       BothDone(c)
          => /\ \A t \in Threads : thr[t].status = 200
             /\ WellFormedRecord(c)
             /\ download_from_s3(sha256_hexdigest(c)) = c

\* C8 amended: whenever two workers have both finished a PUT of the same
\* content under its digest, the working tree did not change while they
\* were served, the identifier resolved for both and the bucket accepted
\* both writes, then both answered 200, the index holds one well-formed
\* record for it and a GET returns the content.
C8_ConcurrentUploads ==
    \A c \in Contents :
       (/\ BothDone(c)
        /\ \A t \in Threads : thr[t].s3_key # None /\ thr[t].outcome = "ok")
          => /\ \A t \in Threads : thr[t].status = 200
             /\ WellFormedRecord(c)
             /\ download_from_s3(sha256_hexdigest(c)) = c

\* the two PUTs overlapped: the record names the first version written
\* although a second one was written after it
C8_Witness ==
    \E c \in Contents :
       /\ BothDone(c)
       /\ \A t \in Threads : thr[t].status = 200
       /\ version_mapping[sha256_hexdigest(c)].version_id = VersionIds[1]
       /\ Len(bucket[version_mapping[sha256_hexdigest(c)].path]) = 2
       /\ download_from_s3(sha256_hexdigest(c)) = c

\* C9 as stated: the bytes a GET returns hash to the identifier asked for.
C9_DownloadIntegrity ==
    (out.op = "download" /\ out.status = 200)
        => sha256_hexdigest(out.body) = out.oid

\* C10: for an identifier with no record and no file hashing to it, a
\* download negotiation answers 404 for that object, a GET answers 404 and
\* a PUT of matching content answers 500, none of them calls the backend
\* for it, and the index, its file and the bucket stay as they were.
C10_NoDeterministicFallback ==
    [][(out = NoOut /\ out' # NoOut)
       => /\ (out'.op = "download" /\ ~Resolvable(out'.oid))
                => /\ out'.status = 404
                   /\ out'.body = "Object not found"
                   /\ out'.outcomes = <<>>
          /\ (/\ out'.op = "upload"
              /\ out'.oid = sha256_hexdigest(out'.data)
              /\ ~Resolvable(out'.oid))
                => /\ out'.status = 500
                   /\ out'.body = "Upload failed"
                   /\ out'.outcomes = <<>>
          /\ (out'.op \in {"batch", "legacy"} /\ out'.operation = "download")
                => /\ Len(out'.outcomes) <=
                        Cardinality({i \in 1..Len(out'.request) :
                                        Resolvable(out'.request[i].oid)})
                   /\ \A i \in 1..Len(out'.request) :
                         (~Resolvable(out'.request[i].oid) /\ out'.status = 200)
                            => /\ out'.objects[i].error = NotFoundError
                               /\ out'.objects[i].actions = NoAction
          /\ (\A oid \in OIDs :
                (Requested(oid) \/ (out'.op = "upload" /\ out'.oid = oid))
                   => ~Resolvable(oid))
                => /\ version_mapping' = version_mapping
                   /\ mapping_file' = mapping_file
                   /\ bucket' = bucket]_vars

\* a PUT of matching content was refused although the bucket holds that
\* content: its record is gone and no file hashes to it
C10_Witness ==
    /\ out.op = "upload"
    /\ out.oid = sha256_hexdigest(out.data)
    /\ out.status = 500
    /\ out.outcomes = <<>>
    /\ ~Resolvable(out.oid)
    /\ \E p \in Paths : \E i \in 1..Len(bucket[p]) : bucket[p][i].data = out.data

\* C11 as stated: on the direct transfer endpoints a backend failure is
\* answered with a 5xx status: a PUT of matching content whose put_object
\* fails is answered 500, and a GET whose get_object fails although the
\* bucket holds the object asked for is answered 5xx, not 404.
C11_BackendFailureIs5xx ==
    /\ (/\ out.op = "upload"
        /\ out.oid = sha256_hexdigest(out.data)
        /\ out.outcomes # <<>>
        /\ out.outcomes[1] # "ok") => out.status = 500
    /\ (/\ out.op = "download"
        /\ download_from_s3(out.oid) # None
        /\ out.outcomes # <<>>
        /\ out.outcomes[1] # "ok") => out.status >= 500

\* position, among the head_object calls of a download negotiation, of the
\* call made for object i of the request
call_index(i) ==
    Cardinality({j \in 1..i : Resolvable(out.request[j].oid)})

\* C12 as stated: in a download negotiation a backend failure while
\* checking one object gives that object the error {404, "Object not
\* found"} and the batch is still answered, one result per object.
C12_BatchSurvivesBackendFailure ==
    (out.op = "batch" /\ out.operation \in {"download", None})
        => /\ out.status = 200
           /\ Len(out.objects) = Len(out.request)
           /\ \A i \in 1..Len(out.request) :
                 (/\ Resolvable(out.request[i].oid)
                  /\ call_index(i) <= Len(out.outcomes)
                  /\ out.outcomes[call_index(i)] # "ok")
                    => /\ out.objects[i].error = NotFoundError
                       /\ out.objects[i].actions = NoAction

\* C13: a restart never fails on the mapping file: when the file is missing
\* or does not parse the index starts empty, when it parses the index is
\* the mapping the document spells out, the file is left as it was, and
\* the process serves requests afterwards.
C13_RestoreNeverFatal ==
    [][(out = NoOut /\ out' = NoOut /\ lfs_storage' = lfs_storage)
       => /\ mapping_file' = mapping_file
          /\ bucket' = bucket
          /\ \A t \in Threads : thr'[t].pc = "idle"
          /\ IF ~mapping_file.exists \/ ~json_parses(mapping_file.text)
             THEN version_mapping' = EmptyMapping
             ELSE json_dump(version_mapping') = mapping_file.text]_vars

\* the process was restarted on a file that does not parse, started with
\* an empty index and has since answered a GET with the stored bytes
C13_Witness ==
    /\ mapping_file.exists
    /\ ~json_parses(mapping_file.text)
    /\ version_mapping = EmptyMapping
    /\ out.op = "download"
    /\ out.status = 200

\* the identifier with its hex digits in lower case
lower_hex(oid) == IF oid = "A1" THEN "a1" ELSE oid

\* C14 as stated: a PUT whose identifier equals the digest of the body up
\* to the case of its hex digits is not rejected as a hash mismatch.
C14_CaseInsensitiveMatch ==
    (out.op = "upload" /\ lower_hex(out.oid) = sha256_hexdigest(out.data))
        => (out.status # 400 /\ out.body # "Hash mismatch")

\* the step is a PUT that stored its body: the record of the identifier
\* names the key it resolved to, the version id S3 gave to the write (the
\* last version now under the key; none on an unversioned bucket) and the
\* ETag of the body
StoreRecordsVersion ==
    (out'.op = "upload" /\ out'.status = 200)
       => LET oid == out'.oid
              rec == version_mapping'[oid]
              held == bucket'[rec.path]
          IN /\ oid \in DOMAIN version_mapping'
             /\ rec.path = get_s3_key(oid)
             /\ held # <<>>
             /\ held[Len(held)].data = out'.data
             /\ rec.etag = held[Len(held)].etag
             /\ IF versioning THEN rec.version_id = VersionIds[Len(held)]
                ELSE rec.version_id = None

\* the step is a GET of a recorded identifier answered by the bucket: the
\* bytes are those of the version the record names, of the latest version
\* when it names none
FetchPinsVersion ==
    (/\ out'.op = "download"
     /\ out'.oid \in DOMAIN version_mapping
     /\ out'.outcomes = <<"ok">>)
       => LET rec == version_mapping[out'.oid]
              held == bucket[rec.path]
              at == IF rec.version_id # None
                    THEN version_index(rec.version_id) ELSE Len(held)
          IN IF at \in 1..Len(held)
             THEN out'.status = 200 /\ out'.body = held[at].data
             ELSE out'.status = 404

\* only a PUT that stored its body changes the record an identifier has
RecordStays ==
    \A oid \in DOMAIN version_mapping \cap DOMAIN version_mapping' :
       version_mapping'[oid] # version_mapping[oid]
          => (out'.op = "upload" /\ out'.status = 200 /\ out'.oid = oid)

\* C15 as stated: a PUT that stored its body records key, version id and
\* ETag of the write, a GET asks for the version in the record, and so a
\* GET of any recorded identifier returns the bytes last stored for it,
\* whatever was written to its key since.
C15_VersionPinningEveryRecord ==
    [][/\ StoreRecordsVersion
       /\ FetchPinsVersion
       /\ RecordStays
       /\ \A oid \in DOMAIN version_mapping' :
             sha256_hexdigest(download_from_s3(oid)') = oid]_vars

\* C15 amended: a PUT that stored its body records key, version id and
\* ETag of the write, a GET asks for the version in the record, and so a
\* GET of an identifier whose record holds a version id returns the bytes
\* last stored for it, whatever was written to its key since.
C15_VersionPinning ==
    [][/\ StoreRecordsVersion
       /\ FetchPinsVersion
       /\ RecordStays
       /\ \A oid \in DOMAIN version_mapping' :
             version_mapping'[oid].version_id # None
                => sha256_hexdigest(download_from_s3(oid)') = oid]_vars

\* a GET returned the first version of a key after another identifier
\* wrote a second version under it
C15_Witness ==
    /\ out.op = "download"
    /\ out.status = 200
    /\ out.oid \in DOMAIN version_mapping
    /\ version_mapping[out.oid].version_id = VersionIds[1]
    /\ Len(bucket[version_mapping[out.oid].path]) = 2
    /\ bucket[version_mapping[out.oid].path][2].data # out.body
    /\ sha256_hexdigest(out.body) = out.oid

\* both workers have finished a PUT answered 200, of different identifiers
BothStored ==
    /\ \A t \in Threads : thr[t].pc = "done" /\ thr[t].status = 200
    /\ \E t, u \in Threads : thr[t].oid # thr[u].oid

\* C16 as stated: once two concurrent PUTs of different identifiers have
\* both been answered 200, the mapping file is a well-formed document that
\* holds both records and equals the index in memory.
C16_ConcurrentStoresKeepSnapshot ==
    BothStored
       => /\ mapping_file.exists
          /\ json_parses(mapping_file.text)
          /\ \A t \in Threads :
                thr[t].oid \in DOMAIN load_version_mapping(mapping_file)
          /\ load_version_mapping(mapping_file) = version_mapping

\* the snapshot the mapping file holds
Snapshot(file) == load_version_mapping(file)

\* C17 as stated: a write over a complete mapping file either replaces it
\* with the complete new document or leaves the previous document in
\* place, so no record that a restart would have restored is lost.
C17_AtomicReplace ==
    [][/\ (mapping_file.exists /\ json_parses(mapping_file.text))
             => \/ mapping_file' = mapping_file
                \/ /\ mapping_file'.exists
                   /\ mapping_file'.text = json_dump(version_mapping')
       /\ \A oid \in DOMAIN Snapshot(mapping_file) :
             oid \in DOMAIN Snapshot(mapping_file')]_vars

\* the step is a PUT whose put_object succeeded and whose save failed
SaveFailed ==
    /\ out = NoOut
    /\ out'.op = "upload"
    /\ out'.oid = sha256_hexdigest(out'.data)
    /\ out'.outcomes = <<"ok">>
    /\ ~(mapping_file'.exists /\ json_parses(mapping_file'.text))

\* C18: a PUT whose put_object succeeded and whose save of the mapping
\* file failed is answered 200, the record is in the index in memory and
\* the next GET of the identifier is served through it.
C18_SaveFailureIsSwallowed ==
    [][SaveFailed
       => /\ out'.status = 200
          /\ out'.oid \in DOMAIN version_mapping'
          /\ version_mapping'[out'.oid].path = get_s3_key(out'.oid)
          /\ \A oid \in OIDs :
                oid = out'.oid => download_from_s3(oid)' = out'.data]_vars

\* after a failed save the file is empty, the process holds the record in
\* memory and has answered a later GET through it
C18_Witness ==
    /\ mapping_file = Truncated
    /\ out.op = "download"
    /\ out.status = 200
    /\ out.oid \in DOMAIN version_mapping
    /\ out.body = get_object(version_mapping[out.oid].path,
                             version_mapping[out.oid].version_id)

NoRecord == [path |-> None, version_id |-> None, etag |-> None]

\* the entry mapping m holds for oid
Entry(m, oid) == IF oid \in DOMAIN m THEN m[oid] ELSE NoRecord

\* the step is a request handler, and a PUT whose put_object succeeded
HandlerStep == out = NoOut /\ out' # NoOut
StoreStep == HandlerStep /\ out'.op = "upload" /\ out'.outcomes = <<"ok">>

\* C19 as stated: the index in memory and its snapshot on disk change only
\* in a PUT whose put_object succeeded, and then only in the entry of the
\* uploaded identifier; every other request leaves both as they are; no
\* request removes an entry from either.
C19_IndexFrame ==
    [][HandlerStep
       => /\ ~StoreStep => /\ version_mapping' = version_mapping
                           /\ mapping_file' = mapping_file
          /\ \A oid \in OIDs :
                (StoreStep /\ oid # out'.oid)
                   => /\ Entry(version_mapping', oid) = Entry(version_mapping, oid)
                      /\ Entry(Snapshot(mapping_file'), oid)
                            = Entry(Snapshot(mapping_file), oid)
          /\ \A oid \in OIDs :
                /\ oid \in DOMAIN version_mapping
                      => oid \in DOMAIN version_mapping'
                /\ oid \in DOMAIN Snapshot(mapping_file)
                      => oid \in DOMAIN Snapshot(mapping_file')]_vars

\* C20: a GET of an identifier for which a download negotiation has handed
\* out a download action, served by an available backend with the working
\* tree unchanged and only PUTs, GETs and negotiations since, returns bytes
\* and is not answered 404.
C20_OfferedDownloadSucceeds ==
    (out.op = "download" /\ out.oid \in offered /\ BackendAvailable)
        => /\ out.status = 200
           /\ out.body \in Contents

\* the offered object was downloaded after a later PUT had added a second
\* version under its key
C20_Witness ==
    /\ out.op = "download"
    /\ out.oid \in offered
    /\ out.status = 200
    /\ out.oid \in DOMAIN version_mapping
    /\ Len(bucket[version_mapping[out.oid].path]) = 2

====
